---------------------------- MODULE Spec2Model ----------------------------
(***************************************************************************)
(* Model of create_issues_api.py: the dispatcher (__main__), the batch     *)
(* submitter (create_issues_with_api), the export sink (export_to_json)    *)
(* and the body renderer (create_issue_body).                              *)
(***************************************************************************)
EXTENDS Integers, Sequences, FiniteSets, TLC

(* Longest catalog explored. *)
MaxTasks == 3

(* ------------------------------------------------------------------ *)
(* The task catalog                                                   *)
(* ------------------------------------------------------------------ *)

(* Four entries of the TASKS table, copied verbatim. *)
CatalogPool ==
  << [ id |-> "TASK-023",
       title |-> "Implement render pass with all operations",
       description |-> "Create render pass encoder supporting color attachments, depth-stencil attachments, load/store operations, clear values. Implement draw commands (draw, drawIndexed, drawIndirect, drawIndexedIndirect).",
       labels |-> <<"webgpu-api", "core-functionality">> ],
     [ id |-> "TASK-024",
       title |-> "Implement compute pass operations",
       description |-> "Create compute pass encoder with dispatch operations (dispatch, dispatchIndirect). Support pipeline and bind group setting.",
       labels |-> <<"webgpu-api", "core-functionality">> ],
     [ id |-> "TASK-044",
       title |-> "Create UI panel for buffer configuration",
       description |-> "Build interface for creating GPU buffers with controls for size, usage flags (checkboxes for each flag), label, and mapped-at-creation option. Include validation and creation button.",
       labels |-> <<"ui", "gui">> ],
     [ id |-> "TASK-120",
       title |-> "Document system architecture and design",
       description |-> "Create docs/architecture.md documenting overall system design, module structure, data flow, and key design decisions. Include diagrams if applicable.",
       labels |-> <<"documentation">> ] >>

(* The sequences over 1..n of length at most MaxTasks without repetition. *)
InjectiveSeqs(n) ==
  UNION { { s \in [1..len -> 1..n] : \A a, b \in 1..len : a # b => s[a] # s[b] }
          : len \in 0..MaxTasks }

(* The catalogs explored: every ordering of up to MaxTasks pool entries, *)
(* ids unique as in the TASKS table.                                      *)
Catalogs ==
  { [k \in DOMAIN s |-> CatalogPool[s[k]]] : s \in InjectiveSeqs(Len(CatalogPool)) }

(* ------------------------------------------------------------------ *)
(* Rendering                                                          *)
(* ------------------------------------------------------------------ *)

RECURSIVE Join(_, _)
(* sep.join(parts) *)
Join(parts, sep) ==
  IF Len(parts) = 0 THEN ""
  ELSE IF Len(parts) = 1 THEN parts[1]
  ELSE parts[1] \o sep \o Join(Tail(parts), sep)

create_issue_body(task) ==
  task.description
    \o "\n\n## Task Metadata\n- **Task ID**: " \o task.id
    \o "\n- **Category**: " \o Join(task.labels, ", ")
    \o "\n- **Estimated Time**: 1-4 hours\n\n## Dependencies\nThis task may depend on completion of previous tasks in its category. Please check the project roadmap for dependencies.\n\n## Acceptance Criteria\n- Implementation follows Rust and WebGPU best practices\n- Code includes appropriate error handling\n- Changes are tested (unit/integration tests as applicable)\n- Documentation is updated if needed\n- Cross-platform compatibility maintained (native + WASM)\n"

(* issue_data with the bare task title as the issue title. *)
issue_data_bare_title(task) ==
  [ title |-> task.title,
    body |-> create_issue_body(task),
    labels |-> task.labels ]

(* The payload of the create-issue request. *)
issue_data(task) ==
  [ title |-> task.id \o ": " \o task.title,
    body |-> create_issue_body(task),
    labels |-> task.labels ]

(* One entry of the exported document's tasks list. *)
export_entry(task) ==
  [ id |-> task.id,
    title |-> task.id \o ": " \o task.title,
    body |-> create_issue_body(task),
    labels |-> task.labels ]

(* ------------------------------------------------------------------ *)
(* Command line                                                       *)
(* ------------------------------------------------------------------ *)

(* The value argparse gives an option that was not passed. *)
None == "<None>"

DefaultRepo == "telecos/wgpu_playground"

(* Python truth value of an optional string. *)
Truthy(v) == v # None /\ v # ""

ArgSets ==
  [ export : {None, "", "issues_data.json"},
    dry_run : BOOLEAN,
    token : {None, "", "YOUR_GITHUB_TOKEN"},
    repo : {DefaultRepo, "owner/name"} ]

(* dispatch with the token test placed before the dry-run test. *)
dispatch_token_first(a) ==
  IF Truthy(a.export) THEN "export"
  ELSE IF Truthy(a.token) THEN "token"
  ELSE IF a.dry_run THEN "dry_run"
  ELSE "usage"

(* The branch of the if/elif chain that runs for the parsed arguments. *)
dispatch(a) ==
  IF Truthy(a.export) THEN "export"
  ELSE IF a.dry_run THEN "dry_run"
  ELSE IF Truthy(a.token) THEN "token"
  ELSE "usage"

(* ------------------------------------------------------------------ *)
(* The remote service and the destination file                        *)
(* ------------------------------------------------------------------ *)

RemoteNumbers == {42, 43}

(* What one create-issue call can meet: an HTTP answer (a status, a body *)
(* that is JSON with a "number", or a body that cannot be read, decoded  *)
(* or used), or no answer at all (a connectivity or request fault).      *)
Replies ==
  { [answered |-> TRUE, status |-> 201, body |-> "json", number |-> n] : n \in RemoteNumbers }
    \cup { [answered |-> TRUE, status |-> 201, body |-> "unusable", number |-> 0] }
    \cup { [answered |-> TRUE, status |-> 422, body |-> b, number |-> 0] : b \in {"text", "unusable"} }
    \cup { [answered |-> FALSE, status |-> 0, body |-> "none", number |-> 0] }

NoReply == [answered |-> FALSE, status |-> 0, body |-> "pending", number |-> 0]

(* urlopen returns the response for a 2xx status and raises HTTPError *)
(* for any other status.                                               *)
Is2xx(status) == 200 <= status /\ status < 300

NoRequest == [url |-> "", token |-> "", title |-> "", body |-> "", labels |-> <<>>]

(* The destination before the export touches it. *)
Previous == [state |-> "previous", repository |-> "", tasks |-> <<>>]

Line(kind, id, a, b) == [kind |-> kind, id |-> id, a |-> a, b |-> b]

PyBool(b) == IF b THEN "True" ELSE "False"

(* ------------------------------------------------------------------ *)
(* State                                                              *)
(* ------------------------------------------------------------------ *)

VARIABLES
  TASKS,        \* the catalog
  args,         \* the parsed command line
  pc,           \* position of the single thread of control
  mode,         \* the branch of the dispatcher that ran ("none" before)
  idx,          \* position of the for loop in TASKS (1-based)
  created,      \* ids of the tasks whose issue was created
  failed,       \* ids of the tasks whose call failed
  request,      \* the create-issue request in flight, NoRequest when none
  attempts,     \* attempts[k]: create-issue calls issued for TASKS[k]
  replies,      \* replies[k]: what the remote answered for TASKS[k]
  out,          \* the lines printed
  result,       \* return value of create_issues_with_api ("None" before)
  exit_status,  \* process exit status, -1 while running
  raised,       \* an exception left the running function uncaught
  dest,         \* content of the export destination
  handle        \* "open" while the destination file object is open

vars == << TASKS, args, pc, mode, idx, created, failed, request, attempts,
           replies, out, result, exit_status, raised, dest, handle >>

batch_vars == << idx, created, failed, request, attempts, replies, result >>
export_vars == << dest, handle >>

Init ==
  /\ TASKS \in Catalogs
  /\ args \in ArgSets
  /\ pc = "main"
  /\ mode = "none"
  /\ idx = 1
  /\ created = << >>
  /\ failed = << >>
  /\ request = NoRequest
  /\ attempts = [k \in 1..Len(TASKS) |-> 0]
  /\ replies = [k \in 1..Len(TASKS) |-> NoReply]
  /\ out = << >>
  /\ result = "None"
  /\ exit_status = -1
  /\ raised = FALSE
  /\ dest = Previous
  /\ handle = "closed"

(* An exception nobody catches: traceback, interpreter exits with 1. *)
Uncaught ==
  /\ raised' = TRUE
  /\ exit_status' = 1
  /\ pc' = "exited"

(* ------------------------------------------------------------------ *)
(* __main__                                                           *)
(* ------------------------------------------------------------------ *)

MainExport ==
  /\ pc = "main"
  /\ dispatch(args) = "export"
  /\ mode' = "export"
  /\ pc' = "export_open"
  /\ UNCHANGED << TASKS, args, out, exit_status, raised >>
  /\ UNCHANGED batch_vars
  /\ UNCHANGED export_vars

preview_lines(tasks) ==
  [k \in 1..Len(tasks) |-> Line("preview", tasks[k].id \o ": " \o tasks[k].title
                                   \o " [" \o Join(tasks[k].labels, ", ") \o "]", 0, 0)]

MainDryRun ==
  /\ pc = "main"
  /\ dispatch(args) = "dry_run"
  /\ mode' = "dry_run"
  /\ out' = out \o << Line("would_create", "", Len(TASKS), 0) >> \o preview_lines(TASKS)
  /\ exit_status' = 0
  /\ pc' = "exited"
  /\ UNCHANGED << TASKS, args, raised >>
  /\ UNCHANGED batch_vars
  /\ UNCHANGED export_vars

MainToken ==
  /\ pc = "main"
  /\ dispatch(args) = "token"
  /\ mode' = "token"
  /\ created' = << >>
  /\ failed' = << >>
  /\ idx' = 1
  /\ pc' = "batch_loop"
  /\ UNCHANGED << TASKS, args, out, exit_status, raised, request, attempts, replies, result >>
  /\ UNCHANGED export_vars

(* The last branch prints and falls off the end of the script. *)
usage_exit_status == 0

MainUsage ==
  /\ pc = "main"
  /\ dispatch(args) = "usage"
  /\ mode' = "usage"
  /\ out' = out \o << Line("error", "", 0, 0), Line("usage", "", 0, 0),
                      Line("usage", "--token", 0, 0), Line("usage", "--export", 0, 0),
                      Line("usage", "--dry-run", 0, 0) >>
  /\ exit_status' = usage_exit_status
  /\ pc' = "exited"
  /\ UNCHANGED << TASKS, args, raised >>
  /\ UNCHANGED batch_vars
  /\ UNCHANGED export_vars

(* sys.exit(0 if success else 1) *)
exit_code(success) == IF success = "True" THEN 0 ELSE 1

MainExit ==
  /\ pc = "batch_returned"
  /\ exit_status' = exit_code(result)
  /\ pc' = "exited"
  /\ UNCHANGED << TASKS, args, mode, out, raised >>
  /\ UNCHANGED batch_vars
  /\ UNCHANGED export_vars

(* ------------------------------------------------------------------ *)
(* create_issues_with_api                                             *)
(* ------------------------------------------------------------------ *)

base_url(repo) == "https://api.github.com/repos/" \o repo \o "/issues"

(* The Request object built for a task: URL, bearer token, JSON payload. *)
build_request(token, repo, task) ==
  [ url |-> base_url(repo),
    token |-> token,
    title |-> issue_data(task).title,
    body |-> issue_data(task).body,
    labels |-> issue_data(task).labels ]

(* Top of a loop iteration: build the payload and the request, call urlopen. *)
SendRequest ==
  /\ pc = "batch_loop"
  /\ idx <= Len(TASKS)
  /\ request' = build_request(args.token, args.repo, TASKS[idx])
  /\ attempts' = [attempts EXCEPT ![idx] = @ + 1]
  /\ pc' = "batch_wait"
  /\ UNCHANGED << TASKS, args, mode, idx, created, failed, replies, out, result,
                  exit_status, raised >>
  /\ UNCHANGED export_vars

(* The call returned or raised: the loop moves on to the next task. *)
NextTask(r) ==
  /\ replies' = [replies EXCEPT ![idx] = r]
  /\ request' = NoRequest
  /\ idx' = idx + 1
  /\ pc' = "batch_loop"
  /\ UNCHANGED << TASKS, args, mode, attempts, result, exit_status, raised >>
  /\ UNCHANGED export_vars

(* created_notice without the number the remote assigned. *)
created_notice_without_number(task, number) == Line("created", task.id, 0, 0)

created_notice(task, number) == Line("created", task.id, number, 0)

(* try body: 2xx response, its body read, decoded, parsed, "number" found. *)
ReplyCreated(r) ==
  /\ pc = "batch_wait"
  /\ r.answered /\ Is2xx(r.status) /\ r.body = "json"
  /\ out' = Append(out, created_notice(TASKS[idx], r.number))
  /\ created' = Append(created, TASKS[idx].id)
  /\ failed' = failed
  /\ NextTask(r)

(* ReplyUnusableSuccess with the id appended to created before the *)
(* response body is used.                                          *)
ReplyUnusableSuccess_created_first(r) ==
  /\ pc = "batch_wait"
  /\ r.answered /\ Is2xx(r.status) /\ r.body # "json"
  /\ out' = Append(out, Line("failed", TASKS[idx].id, 0, 0))
  /\ failed' = Append(failed, TASKS[idx].id)
  /\ created' = Append(created, TASKS[idx].id)
  /\ NextTask(r)

(* try body raises after urlopen returned a 2xx response (read, decode, *)
(* json.loads or result['number']): caught by except Exception.         *)
ReplyUnusableSuccess(r) ==
  /\ pc = "batch_wait"
  /\ r.answered /\ Is2xx(r.status) /\ r.body # "json"
  /\ out' = Append(out, Line("failed", TASKS[idx].id, 0, 0))
  /\ failed' = Append(failed, TASKS[idx].id)
  /\ created' = created
  /\ NextTask(r)

(* except HTTPError: the rejection body is read and decoded. *)
ReplyRejected(r) ==
  /\ pc = "batch_wait"
  /\ r.answered /\ ~Is2xx(r.status) /\ r.body = "text"
  /\ out' = out \o << Line("failed", TASKS[idx].id, r.status, 0),
                      Line("error_body", TASKS[idx].id, 0, 0) >>
  /\ failed' = Append(failed, TASKS[idx].id)
  /\ created' = created
  /\ NextTask(r)

(* except HTTPError: e.read().decode('utf-8') raises inside the handler; *)
(* no other except clause of the same try catches it, and the exception  *)
(* leaves create_issues_with_api and __main__.                           *)
ReplyRejectedUnreadable(r) ==
  /\ pc = "batch_wait"
  /\ r.answered /\ ~Is2xx(r.status) /\ r.body # "text"
  /\ replies' = [replies EXCEPT ![idx] = r]
  /\ request' = NoRequest
  /\ Uncaught
  /\ UNCHANGED << TASKS, args, mode, idx, created, failed, attempts, out, result >>
  /\ UNCHANGED export_vars

(* ReplyFault putting the id at the head of failed. *)
ReplyFault_prepends(r) ==
  /\ pc = "batch_wait"
  /\ ~r.answered
  /\ out' = Append(out, Line("failed", TASKS[idx].id, 0, 0))
  /\ failed' = << TASKS[idx].id >> \o failed
  /\ created' = created
  /\ NextTask(r)

(* ReplyFault swallowing the fault without recording the task. *)
ReplyFault_unrecorded(r) ==
  /\ pc = "batch_wait"
  /\ ~r.answered
  /\ out' = out
  /\ failed' = failed
  /\ created' = created
  /\ NextTask(r)

(* except Exception: urlopen raised something that is no HTTPError. *)
ReplyFault(r) ==
  /\ pc = "batch_wait"
  /\ ~r.answered
  /\ out' = Append(out, Line("failed", TASKS[idx].id, 0, 0))
  /\ failed' = Append(failed, TASKS[idx].id)
  /\ created' = created
  /\ NextTask(r)

(* batch_result reporting success as soon as something was created. *)
batch_result_any_created(c, f) == Len(c) > 0

(* return len(failed) == 0 *)
batch_result(c, f) == Len(f) = 0

summary_lines(c, f) ==
  << Line("summary", "", Len(c), Len(f)) >>
    \o (IF Len(f) > 0 THEN << Line("failed_tasks", Join(f, ", "), 0, 0) >> ELSE << >>)

(* After the loop: print the summary and return. *)
Summary ==
  /\ pc = "batch_loop"
  /\ idx > Len(TASKS)
  /\ out' = out \o summary_lines(created, failed)
  /\ result' = PyBool(batch_result(created, failed))
  /\ pc' = "batch_returned"
  /\ UNCHANGED << TASKS, args, mode, idx, created, failed, request, attempts,
                  replies, exit_status, raised >>
  /\ UNCHANGED export_vars

(* ------------------------------------------------------------------ *)
(* export_to_json                                                     *)
(* ------------------------------------------------------------------ *)

(* export_tasks walking the catalog from its end. *)
export_tasks_reversed(tasks) ==
  [k \in 1..Len(tasks) |-> export_entry(tasks[Len(tasks) + 1 - k])]

export_tasks(tasks) == [k \in 1..Len(tasks) |-> export_entry(tasks[k])]

export_data(tasks) ==
  [ repository |-> "telecos/wgpu_playground", tasks |-> export_tasks(tasks) ]

(* open(filename, 'w') succeeds: the destination is truncated. *)
ExportOpen ==
  /\ pc = "export_open"
  /\ dest' = [state |-> "partial", repository |-> "", tasks |-> << >>]
  /\ handle' = "open"
  /\ pc' = "export_write"
  /\ UNCHANGED << TASKS, args, mode, out, exit_status, raised >>
  /\ UNCHANGED batch_vars

(* open(filename, 'w') raises: nothing catches it. *)
ExportOpenFault ==
  /\ pc = "export_open"
  /\ Uncaught
  /\ UNCHANGED << TASKS, args, mode, out >>
  /\ UNCHANGED batch_vars
  /\ UNCHANGED export_vars

(* json.dump writes the document piece by piece: the repository, then *)
(* the entries in order.                                               *)
ExportWrite ==
  /\ pc = "export_write"
  /\ \/ /\ dest.repository = ""
        /\ dest' = [dest EXCEPT !.repository = export_data(TASKS).repository]
     \/ /\ dest.repository # ""
        /\ Len(dest.tasks) < Len(TASKS)
        /\ dest' = [dest EXCEPT !.tasks =
                      Append(@, export_data(TASKS).tasks[Len(dest.tasks) + 1])]
  /\ UNCHANGED << TASKS, args, pc, mode, out, exit_status, raised, handle >>
  /\ UNCHANGED batch_vars

(* A write (or the flush at close) raises: the with statement closes the *)
(* file object, the exception goes on to the caller, nothing catches it. *)
ExportWriteFault ==
  /\ pc = "export_write"
  /\ handle' = "closed"
  /\ dest' = dest
  /\ Uncaught
  /\ UNCHANGED << TASKS, args, mode, out >>
  /\ UNCHANGED batch_vars

(* The last piece is written, the with statement closes the file, the  *)
(* count is printed, and the script ends.                              *)
ExportFinish ==
  /\ pc = "export_write"
  /\ dest.repository # ""
  /\ Len(dest.tasks) = Len(TASKS)
  /\ dest' = [dest EXCEPT !.state = "complete"]
  /\ handle' = "closed"
  /\ out' = Append(out, Line("exported", args.export, Len(TASKS), 0))
  /\ exit_status' = 0
  /\ pc' = "exited"
  /\ UNCHANGED << TASKS, args, mode, raised >>
  /\ UNCHANGED batch_vars

(* ------------------------------------------------------------------ *)
(* Specification                                                      *)
(* ------------------------------------------------------------------ *)

Next ==
  \/ MainExport
  \/ MainDryRun
  \/ MainToken
  \/ MainUsage
  \/ MainExit
  \/ SendRequest
  \/ \E r \in Replies : ReplyCreated(r)
  \/ \E r \in Replies : ReplyUnusableSuccess(r)
  \/ \E r \in Replies : ReplyRejected(r)
  \/ \E r \in Replies : ReplyRejectedUnreadable(r)
  \/ \E r \in Replies : ReplyFault(r)
  \/ Summary
  \/ ExportOpen
  \/ ExportOpenFault
  \/ ExportWrite
  \/ ExportWriteFault
  \/ ExportFinish

Spec == Init /\ [][Next]_vars

(* ------------------------------------------------------------------ *)
(* Properties                                                         *)
(* ------------------------------------------------------------------ *)

Range(s) == { s[k] : k \in DOMAIN s }

Positions == 1..Len(TASKS)

InputIds == { TASKS[k].id : k \in Positions }

BatchOver == pc = "exited" /\ mode = "token"

NoRemoteCall == request = NoRequest /\ \A k \in Positions : attempts[k] = 0

NoFileEffect == dest = Previous /\ handle = "closed"

(* C1: when a batch run is over, every input id is in exactly one of    *)
(* created and failed: the lengths add up to the input's, the sequences *)
(* are disjoint, and together they hold exactly the input ids.          *)
C1_EveryIdInExactlyOneSequence ==
  BatchOver =>
    /\ Len(created) + Len(failed) = Len(TASKS)
    /\ Range(created) \cap Range(failed) = {}
    /\ Range(created) \cup Range(failed) = InputIds

(* C2: a failure on one task never aborts the batch: when the run is   *)
(* over, a create-issue call has been issued for the task at every     *)
(* position, whatever the earlier tasks met.                           *)
C2_EveryPositionIsCalled ==
  BatchOver => \A k \in Positions : attempts[k] >= 1

(* C3: no per-item fault leaves create_issues_with_api: in token mode  *)
(* no exception is raised to the caller, every task that met a fault   *)
(* is recorded as failed, and the function returns its boolean.        *)
C3_NoFaultReachesTheCaller ==
  mode = "token" =>
    /\ ~raised
    /\ \A k \in Positions :
         (replies[k] # NoReply /\ ~(replies[k].answered /\ Is2xx(replies[k].status)))
           => TASKS[k].id \in Range(failed)
    /\ (pc = "exited" => result \in {"True", "False"})

(* C4: the batch is reported successful iff failed is empty: the       *)
(* function returns True exactly when failed is empty, and in token    *)
(* mode the exit status is 0 when it returned True and 1 when at least *)
(* one task failed.                                                    *)
C4_SuccessIffNoneFailed ==
  /\ (result # "None" => (result = "True" <=> Len(failed) = 0))
  /\ (BatchOver =>
        /\ (result = "True" => exit_status = 0)
        /\ (Len(failed) > 0 => exit_status = 1)
        /\ (exit_status = 0 => result = "True" /\ Len(failed) = 0))

(* A batch of at least two tasks ended with one created and one failed *)
(* and exit status 1.                                                  *)
C4_Witness ==
  /\ BatchOver
  /\ result = "False"
  /\ exit_status = 1
  /\ Len(created) >= 1
  /\ Len(failed) >= 1

(* C5: a batch run never retries: when the run is over, exactly one    *)
(* create-issue call has been issued for each input task.              *)
C5_ExactlyOneCallPerTask ==
  BatchOver => \A k \in Positions : attempts[k] = 1

CreatedAndNoticed(k) ==
  /\ TASKS[k].id \in Range(created)
  /\ TASKS[k].id \notin Range(failed)
  /\ \E j \in DOMAIN out : out[j] = Line("created", TASKS[k].id, replies[k].number, 0)

(* C6 as stated: whenever the remote answered a task's call with a 2xx *)
(* response, the task's id is in created and not in failed, and a      *)
(* progress notice carries the remote issue number.                    *)
C6_Every2xxIsCreated ==
  \A k \in Positions :
    (replies[k].answered /\ Is2xx(replies[k].status)) => CreatedAndNoticed(k)

(* C6 amended: whenever the remote answered a task's call with a 2xx   *)
(* response whose body was read and parsed as JSON holding a number,   *)
(* the task's id is in created and not in failed, and a progress       *)
(* notice carries that number.                                         *)
C6_Usable2xxIsCreated ==
  \A k \in Positions :
    (replies[k].answered /\ Is2xx(replies[k].status) /\ replies[k].body = "json")
      => CreatedAndNoticed(k)

(* The second task was accepted with number 43 after the first failed. *)
C6_Witness ==
  /\ Len(TASKS) >= 2
  /\ idx > 2
  /\ replies[2].answered /\ Is2xx(replies[2].status) /\ replies[2].body = "json"
  /\ replies[2].number = 43
  /\ TASKS[1].id \in Range(failed)
  /\ TASKS[2].id \in Range(created)

C8_DryRunOnlyPrints ==
  (args.dry_run /\ ~Truthy(args.export)) =>
    /\ NoRemoteCall
    /\ NoFileEffect
    /\ ~raised
    /\ pc \in {"main", "exited"}
    /\ (pc = "exited" =>
          /\ mode = "dry_run"
          /\ exit_status = 0
          /\ Len(out) = Len(TASKS) + 1
          /\ \A k \in Positions :
               out[k + 1] = Line("preview",
                                 TASKS[k].id \o ": " \o TASKS[k].title \o " ["
                                   \o Join(TASKS[k].labels, ", ") \o "]", 0, 0))

(* A dry run over three tasks, --token given too, has ended. *)
C8_Witness ==
  /\ pc = "exited"
  /\ mode = "dry_run"
  /\ Truthy(args.token)
  /\ Len(TASKS) = 3
  /\ Len(out) = 4

(* C9: an export that succeeded left a complete document whose tasks   *)
(* list has one entry per input task, in input order, each with        *)
(* exactly the fields id, title, body and labels of that task; and the *)
(* export issues no remote call.                                       *)
C9_ExportWritesEveryTaskInOrder ==
  /\ (mode = "export" => NoRemoteCall)
  /\ (pc = "exited" /\ mode = "export" /\ ~raised => dest.state = "complete")
  /\ (dest.state = "complete" =>
        /\ Len(dest.tasks) = Len(TASKS)
        /\ \A k \in Positions :
             /\ DOMAIN dest.tasks[k] = {"id", "title", "body", "labels"}
             /\ dest.tasks[k].id = TASKS[k].id
             /\ dest.tasks[k].title = TASKS[k].id \o ": " \o TASKS[k].title
             /\ dest.tasks[k].body = create_issue_body(TASKS[k])
             /\ dest.tasks[k].labels = TASKS[k].labels)

(* An export of three tasks has ended with exit status 0. *)
C9_Witness ==
  /\ pc = "exited"
  /\ mode = "export"
  /\ exit_status = 0
  /\ dest.state = "complete"
  /\ Len(TASKS) = 3
  /\ Len(dest.tasks) = 3

(* C10: when the export's open or a write fails, the fault reaches the *)
(* caller, the handle is released, and the destination holds either    *)
(* the complete document or what it held before.                       *)
C10_FailedExportLeavesNoPartialDocument ==
  (mode = "export" /\ pc = "exited" /\ dest.state # "complete") =>
    /\ raised
    /\ handle = "closed"
    /\ dest = Previous

(* C11: the repository field written to the exported document is the  *)
(* repository selected for the invocation: the value of --repo, which *)
(* is the default repository when the flag is not given.              *)
C11_ExportedRepositoryIsSelected ==
  (mode = "export" /\ dest.repository # "") => dest.repository = args.repo

(* The calls issued and not yet returned. *)
Outstanding == { k \in Positions : attempts[k] >= 1 /\ replies[k] = NoReply }

Recorded(k) == TASKS[k].id \in Range(created) \cup Range(failed)

(* C12: the remote calls are sequential and in input order: at most   *)
(* one call is outstanding, a request is in flight only while the     *)
(* loop waits for it, and a call has been issued for position k+1     *)
(* only if the call for position k has returned and its id is in      *)
(* created or failed.                                                 *)
C12_CallsAreSequentialInInputOrder ==
  /\ Cardinality(Outstanding) <= 1
  /\ (request # NoRequest <=> pc = "batch_wait")
  /\ (pc = "batch_wait" => Outstanding = {idx})
  /\ \A k \in Positions :
       (k + 1 \in Positions /\ attempts[k + 1] >= 1) =>
         /\ attempts[k] = 1
         /\ replies[k] # NoReply
         /\ Recorded(k)

(* The call for the second task is outstanding, the first has returned. *)
C12_Witness ==
  /\ pc = "batch_wait"
  /\ idx = 2
  /\ attempts[2] = 1
  /\ replies[1] # NoReply
  /\ replies[2] = NoReply
  /\ Recorded(1)

OutcomeLines == { j \in DOMAIN out : out[j].kind \in {"created", "failed"} }

SummaryLines == { j \in DOMAIN out : out[j].kind = "summary" }

(* C13: when a batch run is over, the output holds exactly one outcome *)
(* line (created or failed) per input task, and after them exactly one *)
(* aggregate line whose counts are the lengths of created and failed.  *)
C13_OneOutcomeLinePerTaskThenSummary ==
  BatchOver =>
    /\ Cardinality(OutcomeLines) = Len(TASKS)
    /\ \A k \in Positions :
         Cardinality({ j \in OutcomeLines : out[j].id = TASKS[k].id }) = 1
    /\ Cardinality(SummaryLines) = 1
    /\ \A s \in SummaryLines :
         /\ out[s].a = Len(created)
         /\ out[s].b = Len(failed)
         /\ \A j \in OutcomeLines : j < s

Processed == { TASKS[j].id : j \in 1..(idx - 1) }

(* C14: between items, and while the loop runs or has returned, with   *)
(* the first idx-1 tasks processed: created and failed are disjoint,   *)
(* their union is exactly the ids of those tasks, and no id of a task  *)
(* not yet processed is in either.                                     *)
C14_LoopInvariant ==
  pc \in {"batch_loop", "batch_wait", "batch_returned"} =>
    /\ idx \in 1..(Len(TASKS) + 1)
    /\ Range(created) \cap Range(failed) = {}
    /\ Range(created) \cup Range(failed) = Processed
    /\ Len(created) + Len(failed) = idx - 1
    /\ \A j \in idx..Len(TASKS) :
         TASKS[j].id \notin Range(created) \cup Range(failed)

(* Between the second and the third task, one created and one failed. *)
C14_Witness ==
  /\ pc = "batch_loop"
  /\ Len(TASKS) = 3
  /\ idx = 3
  /\ Len(created) = 1
  /\ Len(failed) = 1

PositionOf(id) == CHOOSE k \in Positions : TASKS[k].id = id

(* s lists input ids at strictly increasing input positions. *)
InInputOrder(s) ==
  /\ \A a \in DOMAIN s : s[a] \in InputIds
  /\ \A a, b \in DOMAIN s : a < b => PositionOf(s[a]) < PositionOf(s[b])

(* C15: created and failed are each a subsequence of the input id     *)
(* sequence, in every state and for every assignment of outcomes.     *)
C15_SequencesKeepInputOrder ==
  InInputOrder(created) /\ InInputOrder(failed)

(* First and third task failed, the second was created. *)
C15_Witness ==
  /\ Len(TASKS) = 3
  /\ failed = << TASKS[1].id, TASKS[3].id >>
  /\ created = << TASKS[2].id >>

(* C16: export and batch submission render a task identically: the     *)
(* title, body and labels of the request in flight for a task are      *)
(* those of the task's export entry, the title of every written export *)
(* entry is that of the task's request payload, and the title is the   *)
(* task id, then ': ', then the task title.                            *)
C16_ExportAndBatchRenderAlike ==
  /\ (pc = "batch_wait" =>
        /\ request.title = export_data(TASKS).tasks[idx].title
        /\ request.body = export_data(TASKS).tasks[idx].body
        /\ request.labels = export_data(TASKS).tasks[idx].labels
        /\ request.title = TASKS[idx].id \o ": " \o TASKS[idx].title)
  /\ \A k \in DOMAIN dest.tasks :
        /\ dest.tasks[k].title = build_request(args.token, args.repo, TASKS[k]).title
        /\ dest.tasks[k].body = build_request(args.token, args.repo, TASKS[k]).body
        /\ dest.tasks[k].labels = build_request(args.token, args.repo, TASKS[k]).labels
        /\ dest.tasks[k].title = TASKS[k].id \o ": " \o TASKS[k].title

(* The request for a second task with a single label is in flight. *)
C16_Witness ==
  /\ pc = "batch_wait"
  /\ idx = 2
  /\ request.title = "TASK-120: Document system architecture and design"
  /\ request.labels = << "documentation" >>

=============================================================================
